---- MODULE Spec2Model ----
(***************************************************************************)
(* The QEMU virtual machine controller of multipass                        *)
(* (src/platform/backends/qemu/qemu_virtual_machine.cpp) as a state        *)
(* machine.  Three threads of control act on one QemuVirtualMachine:       *)
(*   - the caller thread runs the public operations start(), shutdown(),   *)
(*     suspend(), wait_until_ssh_up() and the destructor, one at a time;   *)
(*   - the I/O thread delivers the signals of the child process (started,  *)
(*     ready_read_standard_output, ready_read_standard_error,              *)
(*     error_occurred, finished) to the lambdas of create_connections();   *)
(*   - a polling thread calls ensure_vm_is_running() and ipv4() at any     *)
(*     time.                                                               *)
(* Each statement that reads or writes a field shared between the threads  *)
(* is a step of its own.                                                   *)
(***************************************************************************)
EXTENDS Integers, Sequences, FiniteSets, TLC

\* ------------------------------------------------------------- bounds
\* number of children start() may spawn in one run
MaxStarts == 2
\* capacity of the queue of undelivered child signals
MaxEvents == 3
\* QMP RESET events one child may emit
MaxResets == 1
\* QMP objects one read of the child's standard output may carry
MaxChunk == 2
\* client messages the SFTP server loop of a mount serves
MaxMsgs == 2
\* highest vm_command_version a stored metadata object may carry
MaxVersion == 2

\* ---------------------------------------------------------- constants
\* constexpr int latest_vm_command_version
latest_vm_command_version == 1

States ==
    {"off", "starting", "running", "delayed_shutdown", "restarting",
     "suspending", "suspended", "unknown"}

NoIp == "none"
NoMsg == "none"

\* Outcome of an operation: how it ended and the message of its exception.
Res(what, msg) == [what |-> what, msg |-> msg]

VARIABLES
    \* fields of QemuVirtualMachine / VirtualMachine
    state,                   \* VirtualMachine::state
    ip,                      \* optional<IPAddress> ip: NoIp or "addr"
    update_shutdown_status,  \* bool
    delete_memory_snapshot,  \* bool
    saved_error_msg,         \* std::string
    state_mutex,             \* "free" or the thread holding it
    vm_process,              \* unique_ptr<Process>: "null", or the child's
                             \* condition "running", "dead", "failed" (never started)
    \* the child process and its signal queue
    events,                  \* signals emitted by the child, not yet delivered
    qemu_pending,            \* QMP events the child still has to emit
    written,                 \* QMP commands written to the current child
    nresets,                 \* RESET events emitted by the current child
    started_seen,            \* the started signal of the current child was handled
    \* collaborators
    persisted,               \* last state given to monitor->persist_state_for
    last_mon,                \* last callback made on the monitor
    metadata,                \* the metadata the monitor holds for the VM
    vm_command_version,      \* the version start() gave the QemuVMProcessSpec
    extra_args,              \* the arguments start() gave vm_process->start
    \* threads
    caller_pc,               \* position of the caller thread
    in_dtor,                 \* the caller thread is inside ~QemuVirtualMachine
    caller_result,           \* outcome of the last public operation
    io_pc,                   \* position of the I/O thread
    life,                    \* "alive", "destroyed", "crashed"
    \* history of the run
    nspawn,                  \* children spawned so far
    starting_seen,           \* state was starting during the current child's life
    terminating,             \* the controller began terminating the current child
    shut_req,                \* shutdown() wrote system_powerdown to the current child
    susp_req,                \* "called": suspend() was called in running with the
                             \* child alive; "entered": it then entered suspending;
                             \* "no": otherwise, or another operation, a poll or an
                             \* exit of the child on its own came in between
    fin_in_starting,         \* the current child exited while state was starting
    shutdown_notified,       \* monitor->on_shutdown was called for the current child
    resumed,                 \* the most recent spawning start() resumed a snapshot
    ssh_ok,                  \* wait_until_ssh_up succeeded since that start()
    delvm_done,              \* delvm was written since the most recent resuming start()
    \* the construction of an SshfsMount
    probe_order,             \* the order in which it runs the remote probes
    remote,                  \* the remote host: its reply to each command
    mount_pc,                \* "none", "probing", "sftp", "returned", "raised"
    probe_i,                 \* position of the next probe in probe_order
    executed,                \* the commands run so far, in order
    mount_error,             \* the error the construction raised
    peer_closed,             \* the SFTP peer closed the session
    served                   \* client messages the SFTP server loop served

fields == <<state, ip, update_shutdown_status, delete_memory_snapshot,
            saved_error_msg, state_mutex>>
child == <<vm_process, events, qemu_pending, written, nresets, started_seen>>
collab == <<persisted, last_mon, metadata>>
callerv == <<caller_pc, in_dtor, caller_result>>
hist == <<nspawn, starting_seen, terminating, shut_req, susp_req, fin_in_starting, shutdown_notified, resumed, ssh_ok, delvm_done>>
vmvars == <<fields, child, collab, vm_command_version, extra_args, callerv,
            io_pc, life, hist>>
mountv == <<probe_order, remote, mount_pc, probe_i, executed, mount_error,
            peer_closed, served>>
vars == <<vmvars, mountv>>

\* ------------------------------------------------------------ metadata
\* A metadata object: which keys it has and their values.
Metadata(hasv, v, hasc, c, hasm) ==
    [has_version |-> hasv, version |-> v, has_use_cdrom |-> hasc,
     use_cdrom |-> c, has_machine_type |-> hasm]

\* generate_metadata(): machine type probed, latest command version.
generate_metadata ==
    Metadata(TRUE, latest_vm_command_version, FALSE, FALSE, TRUE)

\* The metadata objects a monitor may hold when the controller is built:
\* a legacy one (use_cdrom) and one written by generate_metadata.
InitialMetadata ==
    {Metadata(FALSE, 0, TRUE, TRUE, TRUE),
     generate_metadata}

\* Every shape a stored metadata object may have: each key present or not,
\* versions up to MaxVersion.
AllMetadata ==
    {Metadata(hasv, IF hasv THEN v ELSE 0, hasc, hasc /\ c, hasm) :
        hasv \in BOOLEAN, v \in 0..MaxVersion, hasc \in BOOLEAN,
        c \in BOOLEAN, hasm \in BOOLEAN}

\* QJsonValue::toInt(): the number, if the value is an integral number, and
\* 0 otherwise.
toInt(v) == IF v \in Int THEN v ELSE 0

\* get_vm_command_version() without the retro-setting of use_cdrom.
get_vm_command_version_no_legacy(md) ==
    IF md.has_version THEN toInt(md.version) ELSE 0

\* get_vm_command_version() (lines 73-89).
get_vm_command_version(md) ==
    IF md.has_version THEN toInt(md.version)
    ELSE IF md.has_use_cdrom /\ md.use_cdrom THEN 1
    ELSE 0

\* constexpr auto default_machine_type
default_machine_type == "pc-i440fx-xenial"

\* metadata[machine_type_key].toString(), replaced by the default when it
\* is null (lines 218-224); a stored machine type is the one
\* get_qemu_machine_type() probed.
machine_type(md) ==
    IF md.has_machine_type THEN "probed_machine_type" ELSE default_machine_type

\* metadata["use_cdrom"].toBool(): false for a missing key.
use_cdrom_toBool(md) == md.has_use_cdrom /\ md.use_cdrom

\* The two forms of the cloud-init argument (lines 232 and 236-237).
CdromArg == <<"-cdrom", "cloud_init_path">>
DriveArg ==
    <<"-drive",
      "file=cloud_init_path,if=virtio,format=raw,snapshot=off,read-only">>

\* The cloud-init argument of a resuming start() (lines 230-238).
cloud_init_arg(md) == IF use_cdrom_toBool(md) THEN CdromArg ELSE DriveArg

\* extra_args of a resuming start() (lines 227-238).
ResumeArgs(md) ==
    <<"-loadvm", "suspend", "-machine", machine_type(md)>> \o cloud_init_arg(md)

\* --------------------------------------------------------- child signals
Sig(name) == [sig |-> name, data |-> <<>>]
Stdout(objs) == [sig |-> "stdout", data |-> objs]

\* Room for one more stdout/stderr signal: two slots stay free for the
\* error_occurred and finished signals of the child's exit.
QueueRoom == Len(events) + 2 < MaxEvents

\* Process::kill(): a running child dies and emits error_occurred(Crashed)
\* and finished(CrashExit); a child that is not running is left alone.
KilledEvents(p, q) ==
    IF p = "running" THEN q \o <<Sig("error"), Sig("finished")>> ELSE q

KilledProcess(p) == IF p = "running" THEN "dead" ELSE p

\* ---------------------------------------------------------------- Init
\* QemuVirtualMachine::QemuVirtualMachine: state from
\* instance_image_has_snapshot, no child yet; the two flags have the
\* values their invariants give a controller that did nothing yet.
InitVmWith(mds) ==
    /\ state \in {"off", "suspended"}
    /\ ip = NoIp
    /\ update_shutdown_status = TRUE
    /\ delete_memory_snapshot = FALSE
    /\ saved_error_msg = NoMsg
    /\ state_mutex = "free"
    /\ vm_process = "null"
    /\ events = <<>>
    /\ qemu_pending = <<>>
    /\ written = {}
    /\ nresets = 0
    /\ started_seen = FALSE
    /\ persisted = "none"
    /\ last_mon = "none"
    /\ metadata \in mds
    /\ vm_command_version = latest_vm_command_version
    /\ extra_args = <<>>
    /\ caller_pc = "idle"
    /\ in_dtor = FALSE
    /\ caller_result = Res("none", NoMsg)
    /\ io_pc = "idle"
    /\ life = "alive"
    /\ nspawn = 0
    /\ starting_seen = FALSE
    /\ terminating = FALSE
    /\ shut_req = FALSE
    /\ susp_req = "no"
    /\ fin_in_starting = FALSE
    /\ shutdown_notified = FALSE
    /\ resumed = FALSE
    /\ ssh_ok = FALSE
    /\ delvm_done = FALSE

InitVm == InitVmWith(InitialMetadata)

\* A public operation may begin: the object lives and the caller is idle.
CallerIdle == life = "alive" /\ caller_pc = "idle" /\ ~in_dtor

\* Return from shutdown()/suspend(): to the caller, or into the destructor.
ReturnPc == IF in_dtor THEN "dt_wait" ELSE "idle"

\* ------------------------------------------------------------- start()
\* start() without its test for suspending.
StartBranchNoSuspendingTest(s) ==
    IF s = "running" THEN "return"
    ELSE IF s = "suspended" THEN "resume"
    ELSE "fresh"

\* The branch start() takes on the state it reads (lines 203-246).
StartBranch(s) ==
    IF s = "running" THEN "return"
    ELSE IF s = "suspending" THEN "throw"
    ELSE IF s = "suspended" THEN "resume"
    ELSE "fresh"

\* The states in which callers call start(): those of its precondition
\* (off, suspended) and those it refuses (running, suspending).
StartStates == {"off", "suspended", "running", "suspending"}

\* start(), lines 199-246: the early exits, the resume branch
\* (update_shutdown_status, delete_memory_snapshot) or the metadata update.
Start ==
    /\ CallerIdle
    /\ state \in StartStates
    /\ StartBranch(state) \in {"return", "throw"} \/ nspawn < MaxStarts
    /\ LET b == StartBranch(state) IN
       /\ caller_pc' = IF b \in {"return", "throw"} THEN "idle" ELSE "st_spawn"
       /\ caller_result' =
            CASE b = "return" -> Res("ok", NoMsg)
              [] b = "throw" ->
                   Res("runtime_error", "cannot start the instance while suspending")
              [] OTHER -> Res("none", NoMsg)
       /\ update_shutdown_status' =
            IF b = "resume" THEN TRUE ELSE update_shutdown_status
       /\ delete_memory_snapshot' =
            IF b = "resume" THEN TRUE ELSE delete_memory_snapshot
       /\ metadata' = IF b = "fresh" THEN generate_metadata ELSE metadata
       /\ vm_command_version' =
            CASE b = "resume" -> get_vm_command_version(metadata)
              [] b = "fresh" -> latest_vm_command_version
              [] OTHER -> vm_command_version
       /\ extra_args' =
            CASE b = "resume" -> ResumeArgs(metadata)
              [] b = "fresh" -> <<>>
              [] OTHER -> extra_args
       /\ resumed' = IF b \in {"return", "throw"} THEN resumed ELSE (b = "resume")
       /\ ssh_ok' = IF b \in {"return", "throw"} THEN ssh_ok ELSE FALSE
       /\ delvm_done' = IF b = "resume" THEN FALSE ELSE delvm_done
    /\ UNCHANGED <<state, ip, saved_error_msg, state_mutex, child, persisted,
                   last_mon, in_dtor, io_pc, life, nspawn, starting_seen,
                   terminating, shut_req, susp_req, fin_in_starting,
                   shutdown_notified>>
    /\ UNCHANGED mountv

\* start(), lines 248-257: the new Process replaces the old one (whose
\* undelivered signals go with it) and is started.  The spawn may fail:
\* error_occurred(FailedToStart), with or without a message on the child's
\* standard error before it.
StartSpawn ==
    /\ life = "alive"
    /\ caller_pc = "st_spawn"
    /\ \/ /\ vm_process' = "running"
          /\ events' = <<Sig("started")>>
       \/ /\ vm_process' = "failed"
          /\ events' \in {<<Sig("error")>>, <<Sig("stderr"), Sig("error")>>}
    /\ qemu_pending' = <<>>
    /\ written' = {}
    /\ nresets' = 0
    /\ started_seen' = FALSE
    /\ caller_pc' = "st_wait"
    /\ nspawn' = nspawn + 1
    /\ starting_seen' = FALSE
    /\ terminating' = FALSE
    /\ shut_req' = FALSE
    /\ susp_req' = "no"
    /\ fin_in_starting' = FALSE
    /\ shutdown_notified' = FALSE
    /\ UNCHANGED <<fields, collab, in_dtor, caller_result, io_pc,
                   life, resumed, delvm_done, ssh_ok>>
    /\ UNCHANGED <<vm_command_version, extra_args, mountv>>

\* Process::wait_for_started(): true once the started signal was received,
\* false when the child failed to start.
WaitForStarted ==
    IF started_seen THEN "started"
    ELSE IF vm_process = "failed" THEN "failed"
    ELSE "blocked"

\* start(), lines 258-263: wait_for_started, then the QMP handshake.
StartWait ==
    /\ life = "alive"
    /\ caller_pc = "st_wait"
    /\ WaitForStarted # "blocked"
    /\ caller_pc' = "idle"
    /\ IF WaitForStarted = "started"
       THEN /\ written' = IF vm_process = "running"
                          THEN written \cup {"qmp_capabilities"} ELSE written
            /\ caller_result' = Res("ok", NoMsg)
       ELSE /\ written' = written
            /\ caller_result' = Res("runtime_error", "failed to start qemu instance")
    /\ UNCHANGED <<fields, vm_process, events, qemu_pending, nresets,
                   started_seen, collab, in_dtor, io_pc, life, hist>>
    /\ UNCHANGED <<vm_command_version, extra_args, mountv>>


\* ---------------------------------------------------------- shutdown()
\* shutdown() with unknown left out of the states it powers down.
ShutdownBranchUnknownKills(s, p) ==
    IF s = "suspended" THEN "ignore"
    ELSE IF s \in {"running", "delayed_shutdown"}
         THEN IF p = "null" THEN "nullderef"
              ELSE IF p = "running" THEN "powerdown" ELSE "kill"
    ELSE "kill"

\* The branch shutdown() takes (lines 273-290) on the state and the child;
\* vm_process->running() is evaluated only after the state test passed.
ShutdownBranch(s, p) ==
    IF s = "suspended" THEN "ignore"
    ELSE IF s \in {"running", "delayed_shutdown", "unknown"}
         THEN IF p = "null" THEN "nullderef"
              ELSE IF p = "running" THEN "powerdown" ELSE "kill"
    ELSE "kill"

\* shutdown(), lines 273-286; called by the caller or by the destructor.
Shutdown ==
    /\ CallerIdle \/ (life = "alive" /\ caller_pc = "dt_shutdown")
    /\ LET b == ShutdownBranch(state, vm_process) IN
       /\ caller_pc' =
            CASE b = "ignore" -> ReturnPc
              [] b = "powerdown" -> "sd_wait"
              [] b = "kill" -> "sd_kill"
              [] OTHER -> caller_pc
       /\ life' = IF b = "nullderef" THEN "crashed" ELSE life
       /\ written' = IF b = "powerdown"
                     THEN written \cup {"system_powerdown"} ELSE written
       /\ shut_req' = (shut_req \/ b = "powerdown")
       /\ update_shutdown_status' =
            IF b = "kill" /\ state = "starting" THEN FALSE
            ELSE update_shutdown_status
       /\ terminating' = (terminating \/ (b = "kill" /\ state = "starting"))
       /\ susp_req' = "no"
       /\ caller_result' = IF b = "ignore" /\ ~in_dtor
                           THEN Res("ok", NoMsg) ELSE Res("none", NoMsg)
    /\ UNCHANGED <<state, ip, delete_memory_snapshot, saved_error_msg,
                   state_mutex, vm_process, events, qemu_pending, nresets,
                   started_seen, collab, in_dtor, io_pc, nspawn,
                   starting_seen, fin_in_starting,
                   shutdown_notified, resumed, delvm_done, ssh_ok>>
    /\ UNCHANGED <<vm_command_version, extra_args, mountv>>

\* shutdown(), line 288: vm_process->kill().
ShutdownKill ==
    /\ life = "alive"
    /\ caller_pc = "sd_kill"
    /\ IF vm_process = "null"
       THEN /\ life' = "crashed"
            /\ UNCHANGED <<vm_process, events, qemu_pending, caller_pc,
                           fin_in_starting>>
       ELSE /\ life' = life
            /\ vm_process' = KilledProcess(vm_process)
            /\ events' = KilledEvents(vm_process, events)
            /\ qemu_pending' = <<>>
            /\ caller_pc' = "sd_wait"
            /\ fin_in_starting' =
                 (fin_in_starting \/ (vm_process = "running" /\ state = "starting"))
    /\ UNCHANGED <<fields, written, nresets, started_seen, collab, in_dtor,
                   caller_result, io_pc, nspawn, starting_seen,
                   terminating, shut_req, susp_req, shutdown_notified, resumed, delvm_done, ssh_ok>>
    /\ UNCHANGED <<vm_command_version, extra_args, mountv>>

\* shutdown(), lines 281 and 289: vm_process->wait_for_finished() returns
\* once the child is no longer running.
ShutdownWait ==
    /\ life = "alive"
    /\ caller_pc = "sd_wait"
    /\ vm_process # "running"
    /\ caller_pc' = ReturnPc
    /\ caller_result' = IF in_dtor THEN caller_result ELSE Res("ok", NoMsg)
    /\ UNCHANGED <<fields, child, collab, in_dtor, io_pc, life, hist>>
    /\ UNCHANGED <<vm_command_version, extra_args, mountv>>

\* ----------------------------------------------------------- suspend()
\* The branch suspend() takes (lines 295-312).
SuspendBranch(s, p) ==
    IF s \in {"running", "delayed_shutdown"}
    THEN IF p = "null" THEN "nullderef"
         ELSE IF p = "running" THEN "savevm" ELSE "nothing"
    ELSE IF s \in {"off", "suspended"} THEN "notify"
    ELSE "nothing"

\* suspend(), lines 295-297 and 308-312; called by the caller or by the
\* destructor.  A savevm makes the child emit STOP and then RESUME; the
\* events of a savevm given while one is in progress merge with its events.
Suspend ==
    /\ CallerIdle \/ (life = "alive" /\ caller_pc = "dt_suspend")
    /\ LET b == SuspendBranch(state, vm_process) IN
       /\ caller_pc' =
            CASE b = "savevm" -> "su_check"
              [] b = "nullderef" -> caller_pc
              [] OTHER -> ReturnPc
       /\ life' = IF b = "nullderef" THEN "crashed" ELSE life
       /\ written' = IF b = "savevm" THEN written \cup {"savevm"} ELSE written
       /\ qemu_pending' = IF b = "savevm"
                          THEN <<"STOP", "RESUME">>
                          ELSE qemu_pending
       /\ last_mon' = IF b = "notify" THEN "on_suspend" ELSE last_mon
       /\ susp_req' = IF b = "savevm" /\ ~in_dtor THEN "called" ELSE "no"
       /\ caller_result' = IF b \in {"notify", "nothing"} /\ ~in_dtor
                           THEN Res("ok", NoMsg) ELSE Res("none", NoMsg)
    /\ UNCHANGED <<fields, vm_process, events, nresets, started_seen, persisted,
                   metadata, in_dtor, io_pc, nspawn, starting_seen, terminating,
                   shut_req, fin_in_starting, shutdown_notified,
                   resumed, delvm_done, ssh_ok>>
    /\ UNCHANGED <<vm_command_version, extra_args, mountv>>

\* suspend(), lines 299-301: if (update_shutdown_status) state = suspending.
SuspendCheck ==
    /\ life = "alive"
    /\ caller_pc = "su_check"
    /\ IF update_shutdown_status
       THEN /\ state' = "suspending"
            /\ susp_req' = IF susp_req = "called" THEN "entered" ELSE "no"
            /\ caller_pc' = "su_persist"
            /\ caller_result' = caller_result
       ELSE /\ UNCHANGED <<state, susp_req>>
            /\ caller_pc' = ReturnPc
            /\ caller_result' = IF in_dtor THEN caller_result ELSE Res("ok", NoMsg)
    /\ UNCHANGED <<ip, update_shutdown_status, delete_memory_snapshot,
                   saved_error_msg, state_mutex, child, collab, in_dtor,
                   io_pc, life, nspawn, starting_seen, terminating, shut_req,
                   fin_in_starting, shutdown_notified, resumed, delvm_done, ssh_ok>>
    /\ UNCHANGED <<vm_command_version, extra_args, mountv>>

\* suspend(), line 302: update_state().
SuspendPersist ==
    /\ life = "alive"
    /\ caller_pc = "su_persist"
    /\ persisted' = state
    /\ caller_pc' = "su_clear"
    /\ UNCHANGED <<fields, child, last_mon, metadata, in_dtor, caller_result,
                   io_pc, life, hist>>
    /\ UNCHANGED <<vm_command_version, extra_args, mountv>>

\* suspend(), line 304: update_shutdown_status = false.
SuspendClear ==
    /\ life = "alive"
    /\ caller_pc = "su_clear"
    /\ update_shutdown_status' = FALSE
    /\ terminating' = TRUE
    /\ caller_pc' = "su_wait"
    /\ UNCHANGED <<state, ip, delete_memory_snapshot, saved_error_msg,
                   state_mutex, child, collab, in_dtor, caller_result,
                   io_pc, life, nspawn, starting_seen, shut_req,
                   susp_req, fin_in_starting, shutdown_notified,
                   resumed, delvm_done, ssh_ok>>
    /\ UNCHANGED <<vm_command_version, extra_args, mountv>>

\* suspend(), line 305: vm_process->wait_for_finished().
SuspendWait ==
    /\ life = "alive"
    /\ caller_pc = "su_wait"
    /\ vm_process # "running"
    /\ caller_pc' = ReturnPc
    /\ caller_result' = IF in_dtor THEN caller_result ELSE Res("ok", NoMsg)
    /\ UNCHANGED <<fields, child, collab, in_dtor, io_pc, life, hist>>
    /\ UNCHANGED <<vm_command_version, extra_args, mountv>>

\* ------------------------------------------------ ensure_vm_is_running()
\* What ensure_vm_is_running() does on the child it finds (lines 381-389):
\* a null handle is dereferenced, a child that is not running makes it set
\* off, notify state_wait and throw, a running child lets it return.
EnsureBranch(p) ==
    IF p = "null" THEN "nullderef"
    ELSE IF p = "running" THEN "return"
    ELSE "throw"

\* ensure_vm_is_running() on the polling thread (the retry loop of
\* ssh_hostname(), lines 396-410).  The polling thread runs only once a
\* child was created.
EnsureVmIsRunning ==
    /\ life = "alive"
    /\ vm_process # "null"
    /\ state_mutex = "free"
    /\ EnsureBranch(vm_process) = "throw"
    /\ state' = "off"
    /\ susp_req' = "no"
    /\ UNCHANGED <<ip, update_shutdown_status, delete_memory_snapshot,
                   saved_error_msg, state_mutex, child, collab, caller_pc,
                   in_dtor, caller_result, io_pc, life, nspawn, starting_seen,
                   terminating, shut_req, fin_in_starting,
                   shutdown_notified, resumed, delvm_done, ssh_ok>>
    /\ UNCHANGED <<vm_command_version, extra_args, mountv>>

\* ---------------------------------------------------------------- ipv4()
\* ipv4(), lines 421-433: an empty ip is filled from the lease dnsmasq
\* holds; the guest of a running child has a lease.
Ipv4 ==
    /\ life = "alive"
    /\ vm_process = "running"
    /\ ip = NoIp
    /\ ip' = "addr"
    /\ UNCHANGED <<state, update_shutdown_status, delete_memory_snapshot,
                   saved_error_msg, state_mutex, child, collab, callerv, io_pc,
                   life, hist>>
    /\ UNCHANGED <<vm_command_version, extra_args, mountv>>

\* ---------------------------------------------------- wait_until_ssh_up()
\* The state mp::utils::wait_until_ssh_up gives a VM whose SSH server
\* answers.
ssh_up_state == "running"

\* mp::utils::wait_until_ssh_up (line 442): one round of its retry loop.
\* It calls ensure_vm_is_running() and then tries an SSH session to
\* ssh_hostname(); when the session opens the VM is running.  The round may
\* also end by the timeout.
WaitUntilSshUp ==
    /\ CallerIdle
    /\ state_mutex = "free"
    /\ LET b == EnsureBranch(vm_process) IN
       \/ /\ b = "nullderef"
          /\ life' = "crashed"
          /\ UNCHANGED <<state, ip, caller_pc, caller_result>>
       \/ /\ b = "throw"
          /\ state' = "off"
          /\ caller_result' = Res("StartException", saved_error_msg)
          /\ UNCHANGED <<ip, caller_pc, life>>
       \/ /\ b = "return"
          /\ state' = ssh_up_state
          /\ ip' = "addr"
          /\ caller_pc' = "ws_delete"
          /\ caller_result' = Res("none", NoMsg)
          /\ life' = life
       \/ /\ b = "return"
          /\ caller_result' = Res("runtime_error", "timed out waiting for ssh")
          /\ UNCHANGED <<state, ip, caller_pc, life>>
    /\ susp_req' = "no"
    /\ UNCHANGED <<update_shutdown_status, delete_memory_snapshot,
                   saved_error_msg, state_mutex, child, collab, in_dtor,
                   io_pc, nspawn, starting_seen, terminating, shut_req,
                   fin_in_starting, shutdown_notified, resumed, delvm_done,
                   ssh_ok>>
    /\ UNCHANGED <<vm_command_version, extra_args, mountv>>

\* wait_until_ssh_up() leaving delete_memory_snapshot set after the delvm.
FlagAfterDelvmKept(dms) == dms

\* delete_memory_snapshot after lines 444-449: cleared inside the if.
FlagAfterDelvm(dms) == FALSE

\* wait_until_ssh_up(), lines 444-449: delvm of the memory snapshot.  The
\* command reaches the child if the child still runs.
WaitUntilSshUpDelete ==
    /\ life = "alive"
    /\ caller_pc = "ws_delete"
    /\ written' = IF delete_memory_snapshot /\ vm_process = "running"
                  THEN written \cup {"delvm"} ELSE written
    /\ delete_memory_snapshot' = FlagAfterDelvm(delete_memory_snapshot)
    /\ delvm_done' = (delvm_done \/ delete_memory_snapshot)
    /\ ssh_ok' = TRUE
    /\ caller_pc' = "idle"
    /\ caller_result' = Res("ok", NoMsg)
    /\ UNCHANGED <<state, ip, update_shutdown_status, saved_error_msg,
                   state_mutex, vm_process, events, qemu_pending, nresets,
                   started_seen, collab, in_dtor, io_pc, life,
                   nspawn, starting_seen, terminating, shut_req, susp_req,
                   fin_in_starting, shutdown_notified, resumed>>
    /\ UNCHANGED <<vm_command_version, extra_args, mountv>>

\* ------------------------------------------------- ~QemuVirtualMachine()
\* Lines 187-191: update_shutdown_status = false, then suspend() when
\* running and shutdown() otherwise.
Destroy ==
    /\ CallerIdle
    /\ update_shutdown_status' = FALSE
    /\ terminating' = TRUE
    /\ in_dtor' = TRUE
    /\ caller_pc' = IF state = "running" THEN "dt_suspend" ELSE "dt_shutdown"
    /\ caller_result' = Res("none", NoMsg)
    /\ susp_req' = "no"
    /\ UNCHANGED <<state, ip, delete_memory_snapshot, saved_error_msg,
                   state_mutex, child, collab, io_pc, life, nspawn,
                   starting_seen, shut_req, fin_in_starting, shutdown_notified, resumed, delvm_done, ssh_ok>>
    /\ UNCHANGED <<vm_command_version, extra_args, mountv>>

\* Lines 193-196: the tap device is removed and the child, if there is
\* one, waited for; the object and its Process are gone afterwards.
DestroyWait ==
    /\ life = "alive"
    /\ caller_pc = "dt_wait"
    /\ vm_process # "running"
    /\ life' = "destroyed"
    /\ caller_pc' = "idle"
    /\ in_dtor' = FALSE
    /\ UNCHANGED <<fields, child, collab, caller_result, io_pc, hist>>
    /\ UNCHANGED <<vm_command_version, extra_args, mountv>>

\* ------------------------------------------- the I/O thread: the signals
\* The next undelivered signal is delivered when the I/O thread is free and
\* the Process (and so its connections) still exists.
CanDeliver(name) ==
    /\ life = "alive"
    /\ io_pc = "idle"
    /\ events # <<>>
    /\ Head(events).sig = name

\* on_started() announcing the VM as running at once.
on_started_state_running == "running"

\* The state on_started() sets (line 332).
on_started_state == "starting"

\* Process::started (lines 454-457).
IoStarted ==
    /\ CanDeliver("started")
    /\ events' = Tail(events)
    /\ io_pc' = "on_started"
    /\ UNCHANGED <<fields, vm_process, qemu_pending, written, nresets,
                   started_seen, collab, callerv, life, hist>>
    /\ UNCHANGED <<vm_command_version, extra_args, mountv>>

\* on_started(), line 332: state = starting.
OnStartedState ==
    /\ life # "crashed"
    /\ io_pc = "on_started"
    /\ state' = on_started_state
    /\ starting_seen' = (starting_seen \/ on_started_state = "starting")
    /\ io_pc' = "on_started_persist"
    /\ UNCHANGED <<ip, update_shutdown_status, delete_memory_snapshot,
                   saved_error_msg, state_mutex, child, collab, callerv, life,
                   nspawn, terminating, shut_req, susp_req, fin_in_starting, shutdown_notified, resumed, delvm_done, ssh_ok>>
    /\ UNCHANGED <<vm_command_version, extra_args, mountv>>

\* on_started(), line 333: update_state().
OnStartedPersist ==
    /\ life # "crashed"
    /\ io_pc = "on_started_persist"
    /\ persisted' = state
    /\ io_pc' = "on_started_notify"
    /\ UNCHANGED <<fields, child, last_mon, metadata, callerv, life, hist>>
    /\ UNCHANGED <<vm_command_version, extra_args, mountv>>

\* on_started(), line 334: monitor->on_resume(); the signal is handled.
OnStartedNotify ==
    /\ life # "crashed"
    /\ io_pc = "on_started_notify"
    /\ last_mon' = "on_resume"
    /\ started_seen' = TRUE
    /\ io_pc' = "idle"
    /\ UNCHANGED <<fields, vm_process, events, qemu_pending, written, nresets,
                   persisted, metadata, callerv, life, hist>>
    /\ UNCHANGED <<vm_command_version, extra_args, mountv>>

\* The event the ready_read_standard_output handler acts on (lines
\* 459-462): the "event" field of the first line of everything read.
FirstEvent(objs) == objs[1]

\* What the handler does with that event in state s (lines 464-492).
StdoutBranch(ev, s) ==
    IF ev = "RESET" /\ s # "restarting" THEN "on_restart"
    ELSE IF ev = "RESUME" /\ s \in {"suspending", "running"} THEN "resume_kill"
    ELSE "idle"

\* Process::ready_read_standard_output (lines 458-493).
IoStdout ==
    /\ CanDeliver("stdout")
    /\ events' = Tail(events)
    /\ io_pc' = StdoutBranch(FirstEvent(Head(events).data), state)
    /\ UNCHANGED <<fields, vm_process, qemu_pending, written, nresets,
                   started_seen, collab, callerv, life, hist>>
    /\ UNCHANGED <<vm_command_version, extra_args, mountv>>

\* on_restart(), line 371: state = restarting.
OnRestartState ==
    /\ life # "crashed"
    /\ io_pc = "on_restart"
    /\ state' = "restarting"
    /\ io_pc' = "on_restart_persist"
    /\ UNCHANGED <<ip, update_shutdown_status, delete_memory_snapshot,
                   saved_error_msg, state_mutex, child, collab, callerv, life,
                   hist>>
    /\ UNCHANGED <<vm_command_version, extra_args, mountv>>

\* on_restart(), line 372: update_state().
OnRestartPersist ==
    /\ life # "crashed"
    /\ io_pc = "on_restart_persist"
    /\ persisted' = state
    /\ io_pc' = "on_restart_notify"
    /\ UNCHANGED <<fields, child, last_mon, metadata, callerv, life, hist>>
    /\ UNCHANGED <<vm_command_version, extra_args, mountv>>

\* on_restart(), lines 374-376: ip = nullopt; monitor->on_restart().
OnRestartNotify ==
    /\ life # "crashed"
    /\ io_pc = "on_restart_notify"
    /\ ip' = NoIp
    /\ last_mon' = "on_restart"
    /\ io_pc' = "idle"
    /\ UNCHANGED <<state, update_shutdown_status, delete_memory_snapshot,
                   saved_error_msg, state_mutex, child, persisted, metadata,
                   callerv, life, hist>>
    /\ UNCHANGED <<vm_command_version, extra_args, mountv>>

\* RESUME handler, line 488: vm_process->kill().
ResumeKill ==
    /\ life # "crashed"
    /\ io_pc = "resume_kill"
    /\ vm_process' = KilledProcess(vm_process)
    /\ events' = KilledEvents(vm_process, events)
    /\ qemu_pending' = <<>>
    /\ fin_in_starting' =
         (fin_in_starting \/ (vm_process = "running" /\ state = "starting"))
    /\ io_pc' = "on_suspend"
    /\ UNCHANGED <<fields, written, nresets, started_seen, collab, callerv,
                   life, nspawn, starting_seen, terminating, shut_req, susp_req,
                   shutdown_notified, resumed, delvm_done, ssh_ok>>
    /\ UNCHANGED <<vm_command_version, extra_args, mountv>>

\* on_suspend(), lines 365-366: state = suspended; monitor->on_suspend().
OnSuspend ==
    /\ life # "crashed"
    /\ io_pc = "on_suspend"
    /\ state' = "suspended"
    /\ last_mon' = "on_suspend"
    /\ io_pc' = "idle"
    /\ UNCHANGED <<ip, update_shutdown_status, delete_memory_snapshot,
                   saved_error_msg, state_mutex, child, persisted, metadata,
                   callerv, life, hist>>
    /\ UNCHANGED <<vm_command_version, extra_args, mountv>>

\* Process::ready_read_standard_error (lines 495-498).
IoStderr ==
    /\ CanDeliver("stderr")
    /\ events' = Tail(events)
    /\ saved_error_msg' = "stderr"
    /\ UNCHANGED <<state, ip, update_shutdown_status, delete_memory_snapshot,
                   state_mutex, vm_process, qemu_pending, written, nresets,
                   started_seen, collab, callerv, io_pc, life, hist>>
    /\ UNCHANGED <<vm_command_version, extra_args, mountv>>

\* The test of the error_occurred handler (line 508).
ErrorRunsOnError(uss) == uss

\* Process::error_occurred (lines 505-514).
IoError ==
    /\ CanDeliver("error")
    /\ events' = Tail(events)
    /\ io_pc' = IF ErrorRunsOnError(update_shutdown_status)
                THEN "on_error" ELSE "idle"
    /\ UNCHANGED <<fields, vm_process, qemu_pending, written, nresets,
                   started_seen, collab, callerv, life, hist>>
    /\ UNCHANGED <<vm_command_version, extra_args, mountv>>

\* on_error(), line 339: state = off.
OnErrorState ==
    /\ life # "crashed"
    /\ io_pc = "on_error"
    /\ state' = "off"
    /\ io_pc' = "on_error_persist"
    /\ UNCHANGED <<ip, update_shutdown_status, delete_memory_snapshot,
                   saved_error_msg, state_mutex, child, collab, callerv, life,
                   hist>>
    /\ UNCHANGED <<vm_command_version, extra_args, mountv>>

\* on_error(), line 340: update_state().
OnErrorPersist ==
    /\ life # "crashed"
    /\ io_pc = "on_error_persist"
    /\ persisted' = state
    /\ io_pc' = "idle"
    /\ UNCHANGED <<fields, child, last_mon, metadata, callerv, life, hist>>
    /\ UNCHANGED <<vm_command_version, extra_args, mountv>>

\* The test of the finished handler (line 519).
FinishedRunsOnShutdown(uss, s) == uss \/ s = "starting"

\* Process::finished (lines 516-523).
IoFinished ==
    /\ CanDeliver("finished")
    /\ events' = Tail(events)
    /\ io_pc' = IF FinishedRunsOnShutdown(update_shutdown_status, state)
                THEN "on_shutdown" ELSE "idle"
    /\ UNCHANGED <<fields, vm_process, qemu_pending, written, nresets,
                   started_seen, collab, callerv, life, hist>>
    /\ UNCHANGED <<vm_command_version, extra_args, mountv>>

\* on_shutdown(), lines 345-355: under state_mutex, wait on state_wait when
\* starting (the wait gives the mutex up), set off otherwise.
OnShutdownLock ==
    /\ life # "crashed"
    /\ io_pc = "on_shutdown"
    /\ state_mutex = "free"
    /\ IF state = "starting"
       THEN /\ saved_error_msg' = "shutdown called while starting"
            /\ io_pc' = "on_shutdown_wait"
            /\ UNCHANGED <<state, state_mutex>>
       ELSE /\ state' = "off"
            /\ state_mutex' = "io"
            /\ io_pc' = "on_shutdown_ip"
            /\ saved_error_msg' = saved_error_msg
    /\ UNCHANGED <<ip, update_shutdown_status, delete_memory_snapshot, child,
                   collab, callerv, life, hist>>
    /\ UNCHANGED <<vm_command_version, extra_args, mountv>>

\* A wait on state_wait that has no predicate and ends on any wake-up.
state_wait_no_predicate(s) == TRUE

\* The predicate of the wait on state_wait (line 350).
state_wait_predicate(s) == s = "off"

\* on_shutdown(), line 350: the wait ends once state == off and the mutex
\* can be taken again.
OnShutdownWake ==
    /\ life # "crashed"
    /\ io_pc = "on_shutdown_wait"
    /\ state_wait_predicate(state)
    /\ state_mutex = "free"
    /\ state_mutex' = "io"
    /\ io_pc' = "on_shutdown_ip"
    /\ UNCHANGED <<state, ip, update_shutdown_status, delete_memory_snapshot,
                   saved_error_msg, child, collab, callerv, life, hist>>
    /\ UNCHANGED <<vm_command_version, extra_args, mountv>>

\* on_shutdown(), line 357: ip = nullopt.
OnShutdownIp ==
    /\ life # "crashed"
    /\ io_pc = "on_shutdown_ip"
    /\ ip' = NoIp
    /\ io_pc' = "on_shutdown_persist"
    /\ UNCHANGED <<state, update_shutdown_status, delete_memory_snapshot,
                   saved_error_msg, state_mutex, child, collab, callerv, life,
                   hist>>
    /\ UNCHANGED <<vm_command_version, extra_args, mountv>>

\* on_shutdown(), line 358: update_state().
OnShutdownPersist ==
    /\ life # "crashed"
    /\ io_pc = "on_shutdown_persist"
    /\ persisted' = state
    /\ io_pc' = "on_shutdown_notify"
    /\ UNCHANGED <<fields, child, last_mon, metadata, callerv, life, hist>>
    /\ UNCHANGED <<vm_command_version, extra_args, mountv>>

\* on_shutdown(), lines 359-360: lock.unlock(); monitor->on_shutdown().
OnShutdownNotify ==
    /\ life # "crashed"
    /\ io_pc = "on_shutdown_notify"
    /\ state_mutex' = "free"
    /\ last_mon' = "on_shutdown"
    /\ shutdown_notified' = TRUE
    /\ io_pc' = "idle"
    /\ UNCHANGED <<state, ip, update_shutdown_status, delete_memory_snapshot,
                   saved_error_msg, child, persisted, metadata, callerv, life,
                   nspawn, starting_seen, terminating, shut_req, susp_req,
                   fin_in_starting, resumed, delvm_done, ssh_ok>>
    /\ UNCHANGED <<vm_command_version, extra_args, mountv>>

\* ------------------------------------------------- the child: QEMU itself
\* The queue after the child wrote QMP object obj to its standard output:
\* a read of its own, or part of the read that is already waiting.
Delivered(obj) ==
    (IF QueueRoom THEN {Append(events, Stdout(<<obj>>))} ELSE {})
    \cup
    (IF /\ events # <<>>
        /\ events[Len(events)].sig = "stdout"
        /\ Len(events[Len(events)].data) < MaxChunk
     THEN {[events EXCEPT ![Len(events)].data = Append(@, obj)]}
     ELSE {})

\* The child emits the next QMP event it owes (STOP, RESUME after savevm).
QemuEmit ==
    /\ life = "alive"
    /\ vm_process = "running"
    /\ qemu_pending # <<>>
    /\ events' \in Delivered(Head(qemu_pending))
    /\ qemu_pending' = Tail(qemu_pending)
    /\ UNCHANGED <<fields, vm_process, written, nresets, started_seen, collab,
                   callerv, io_pc, life, hist>>
    /\ UNCHANGED <<vm_command_version, extra_args, mountv>>

\* The guest reboots: the child emits RESET.
GuestReset ==
    /\ life = "alive"
    /\ vm_process = "running"
    /\ nresets < MaxResets
    /\ events' \in Delivered("RESET")
    /\ nresets' = nresets + 1
    /\ UNCHANGED <<fields, vm_process, qemu_pending, written, started_seen,
                   collab, callerv, io_pc, life, hist>>
    /\ UNCHANGED <<vm_command_version, extra_args, mountv>>

\* The child exits: normally (finished alone, as after system_powerdown) or
\* by a crash (error_occurred, then finished).
ChildExit ==
    /\ life = "alive"
    /\ vm_process = "running"
    /\ vm_process' = "dead"
    /\ \E crash \in BOOLEAN :
         events' = IF crash THEN events \o <<Sig("error"), Sig("finished")>>
                   ELSE Append(events, Sig("finished"))
    /\ qemu_pending' = <<>>
    /\ fin_in_starting' = (fin_in_starting \/ state = "starting")
    /\ susp_req' = "no"
    /\ UNCHANGED <<fields, written, nresets, started_seen, collab, callerv,
                   io_pc, life, nspawn, starting_seen, terminating, shut_req,
                   shutdown_notified, resumed, delvm_done, ssh_ok>>
    /\ UNCHANGED <<vm_command_version, extra_args, mountv>>

\* ------------------------------------------ SshfsMount: the remote probes
\* The remote commands SshfsMount runs over SSH exec while it is built:
\* the sshfs presence pair (multipass-sshfs.env, then which sshfs), mkdir -p,
\* id -nu, id -ng, chown, id -u, id -g and sshfs -V.
Commands ==
    {"env", "which", "mkdir", "id_nu", "id_ng", "chown", "id_u", "id_g",
     "sshfs_V"}

\* What a command leaves on its standard output: nothing, KEY=VALUE lines,
\* an integer ("1000"), a word ("ubuntu"), a FUSE version line with integer
\* components or one without ("FUSE library version: fu.man.chu").
Outs == {"empty", "env", "int", "word", "fuse_ok", "fuse_bad"}

Reply(exit, out) == [exit |-> exit, out |-> out]

\* The error a command's reply makes the construction raise.  A failing
\* multipass-sshfs.env raises nothing by itself (which sshfs is tried next);
\* sshfs is missing when which sshfs fails too; a uid that is no integer is
\* an invalid argument; a FUSE version with non-integer components and
\* every non-zero exit are runtime errors.
StepError(cmd, r) ==
    CASE cmd = "env" -> "none"
      [] cmd = "which" ->
           IF r.exit = "fail" THEN "SSHFSMissingError" ELSE "none"
      [] cmd = "id_u" ->
           IF r.exit = "fail" THEN "runtime_error"
           ELSE IF r.out # "int" THEN "invalid_argument"
           ELSE "none"
      [] cmd = "sshfs_V" ->
           IF r.exit = "fail" \/ r.out = "fuse_bad" THEN "runtime_error"
           ELSE "none"
      [] OTHER -> IF r.exit = "fail" THEN "runtime_error" ELSE "none"

\* which sshfs is run only when multipass-sshfs.env failed.
Skips(cmd, env_failed) == cmd = "which" /\ ~env_failed

\* --------------------------------------- SshfsMount: the tests' fixtures
Tests ==
    {"sshfs_does_not_exist", "make_target_dir", "user_id_name",
     "group_id_name", "chown", "obtain_uid", "uid_is_not_an_integer",
     "obtain_gid", "unblocks", "invalid_fuse_version"}

\* The state of a test's mocks: the flag that lets ssh_channel_read_timeout
\* return data, the text it returns, whether that text is still unread, and
\* the exit status ExitStatusMock reports.
Mock(invoked, out, remaining, exit) ==
    [invoked |-> invoked, out |-> out, remaining |-> remaining, exit |-> exit]

\* The commands make_exec_that_fails_for makes fail in each test that uses it.
FailsFor(t) ==
    CASE t = "sshfs_does_not_exist" -> {"env", "which"}
      [] t = "make_target_dir" -> {"mkdir"}
      [] t = "user_id_name" -> {"id_nu"}
      [] t = "group_id_name" -> {"id_ng"}
      [] t = "chown" -> {"chown"}
      [] t = "obtain_uid" -> {"id_u"}
      [] OTHER -> {}

\* The mocks when the test calls make_sshfsmount(): output and remaining of
\* the test, channel_read returning 0 where the fixture's default is kept.
TestInit(t) ==
    CASE t = "uid_is_not_an_integer" -> Mock(FALSE, "word", TRUE, "ok")
      [] t \in {"obtain_gid", "unblocks"} -> Mock(FALSE, "int", TRUE, "ok")
      [] OTHER -> Mock(FALSE, "empty", FALSE, "ok")

\* The test's replacement of ssh_channel_request_exec, called with cmd.
TestExec(t, cmd, st) ==
    CASE cmd \in FailsFor(t) -> [st EXCEPT !.invoked = TRUE, !.exit = "fail"]
      [] t = "uid_is_not_an_integer" /\ cmd = "id_u" ->
           [st EXCEPT !.invoked = TRUE]
      [] t = "obtain_gid" /\ cmd = "id_u" -> [st EXCEPT !.invoked = TRUE]
      [] t = "obtain_gid" /\ cmd = "id_g" ->
           [st EXCEPT !.invoked = FALSE, !.exit = "fail"]
      [] t = "unblocks" /\ cmd = "id_u" -> [st EXCEPT !.invoked = TRUE]
      [] t = "unblocks" /\ cmd = "id_g" -> [st EXCEPT !.remaining = TRUE]
      [] t = "invalid_fuse_version" /\ cmd = "env" ->
           [st EXCEPT !.invoked = TRUE, !.out = "env", !.remaining = TRUE]
      [] t = "invalid_fuse_version" /\ cmd = "sshfs_V" ->
           [st EXCEPT !.out = "fuse_bad", !.remaining = TRUE]
      [] OTHER -> st

\* make_channel_read_return: nothing until the prerequisite was invoked,
\* then what remains of the output, once.
TestRead(st) == IF st.invoked /\ st.remaining THEN st.out ELSE "empty"

TestAfterRead(st) == IF st.invoked THEN [st EXCEPT !.remaining = FALSE] ELSE st

\* What the test expects make_sshfsmount() to throw ("none": it returns).
TestExpects(t) ==
    CASE t = "sshfs_does_not_exist" -> "SSHFSMissingError"
      [] t = "uid_is_not_an_integer" -> "invalid_argument"
      [] t = "unblocks" -> "none"
      [] OTHER -> "runtime_error"

\* The construction run against the mocks of test t with the probes in the
\* given order, from its i-th command on: the error it raises.
RECURSIVE RunTestFrom(_, _, _, _, _)
RunTestFrom(order, i, t, st, env_failed) ==
    IF i > Len(order) THEN "none"
    ELSE LET cmd == order[i] IN
         IF Skips(cmd, env_failed)
         THEN RunTestFrom(order, i + 1, t, st, env_failed)
         ELSE LET st1 == TestExec(t, cmd, st)
                  r == IF st1.exit = "ok" THEN Reply("ok", TestRead(st1))
                       ELSE Reply("fail", "empty")
                  e == StepError(cmd, r)
              IN IF e # "none" THEN e
                 ELSE RunTestFrom(order, i + 1, t, TestAfterRead(st1),
                                  env_failed \/ (cmd = "env" /\ r.exit = "fail"))

TestPasses(order, t) == RunTestFrom(order, 1, t, TestInit(t), FALSE) = TestExpects(t)

\* ----------------------------------------- SshfsMount: the probe order
\* The probes other than sshfs -V, in the order of the specification.
BaseOrder ==
    <<"env", "which", "mkdir", "id_nu", "id_ng", "chown", "id_u", "id_g">>

InsertAt(seq, k, x) ==
    SubSeq(seq, 1, k) \o <<x>> \o SubSeq(seq, k + 1, Len(seq))

\* sshfs -V needs the sshfs found by the presence step: it runs somewhere
\* after it.
CandidateOrders == {InsertAt(BaseOrder, k, "sshfs_V") : k \in 2..Len(BaseOrder)}

\* The orders under which every test of test_sshfsmount.cpp passes.
TestedOrders == {o \in CandidateOrders : \A t \in Tests : TestPasses(o, t)}

\* The remote hosts the construction may meet: one reply per command.
Remotes ==
    {[env |-> e, which |-> w, mkdir |-> m, id_nu |-> nu, id_ng |-> ng,
      chown |-> c, id_u |-> u, id_g |-> g, sshfs_V |-> v] :
        e \in {Reply("ok", "env"), Reply("fail", "empty")},
        w \in {Reply("ok", "empty"), Reply("fail", "empty")},
        m \in {Reply("ok", "empty"), Reply("fail", "empty")},
        nu \in {Reply("ok", "word"), Reply("fail", "empty")},
        ng \in {Reply("ok", "word"), Reply("fail", "empty")},
        c \in {Reply("ok", "empty"), Reply("fail", "empty")},
        u \in {Reply("ok", "int"), Reply("ok", "word"), Reply("fail", "empty")},
        g \in {Reply("ok", "int"), Reply("fail", "empty")},
        v \in {Reply("ok", "fuse_ok"), Reply("ok", "empty"),
               Reply("ok", "fuse_bad"), Reply("fail", "empty")}}

\* No SshfsMount is being built.
InitNoMount ==
    /\ probe_order = <<>>
    /\ remote = [env |-> Reply("ok", "env")]
    /\ mount_pc = "none"
    /\ probe_i = 1
    /\ executed = <<>>
    /\ mount_error = "none"
    /\ peer_closed = FALSE
    /\ served = 0

\* SshfsMount::SshfsMount is entered, on some remote host.
InitMount ==
    /\ probe_order \in TestedOrders
    /\ remote \in Remotes
    /\ mount_pc = "probing"
    /\ probe_i = 1
    /\ executed = <<>>
    /\ mount_error = "none"
    /\ peer_closed = FALSE
    /\ served = 0

\* A construction that goes on to the next probe after an error.
ProbeNeverEnds(e) == FALSE

\* An error of a probe ends the construction.
ProbeEnds(e) == e # "none"

\* The next probe: skipped, or run; its error, if any, ends the construction.
Probe ==
    /\ mount_pc = "probing"
    /\ probe_i <= Len(probe_order)
    /\ LET cmd == probe_order[probe_i]
           e == StepError(cmd, remote[cmd])
       IN IF Skips(cmd, remote["env"].exit = "fail")
          THEN /\ probe_i' = probe_i + 1
               /\ UNCHANGED <<executed, mount_pc, mount_error>>
          ELSE /\ executed' = Append(executed, cmd)
               /\ mount_error' = e
               /\ mount_pc' = IF ProbeEnds(e) THEN "raised" ELSE "probing"
               /\ probe_i' = IF ProbeEnds(e) THEN probe_i ELSE probe_i + 1
    /\ UNCHANGED <<probe_order, remote, peer_closed, served>>
    /\ UNCHANGED vmvars

\* All probes passed: the remote sshfs is launched and the SFTP server loop
\* entered.
EnterSftp ==
    /\ mount_pc = "probing"
    /\ probe_i > Len(probe_order)
    /\ mount_pc' = "sftp"
    /\ UNCHANGED <<probe_order, remote, probe_i, executed, mount_error,
                   peer_closed, served>>
    /\ UNCHANGED vmvars

\* An SFTP server loop that goes on after a null client message.
SftpAfterNeverExits(msg) == "sftp"

\* The SFTP server loop after sftp_get_client_message returned msg: a null
\* message ends it.
SftpAfter(msg) == IF msg = "null" THEN "returned" ELSE "sftp"

\* The loop obtains and serves a client message of the connected peer.
SftpServe ==
    /\ mount_pc = "sftp"
    /\ ~peer_closed
    /\ served < MaxMsgs
    /\ served' = served + 1
    /\ mount_pc' = SftpAfter("msg")
    /\ UNCHANGED <<probe_order, remote, probe_i, executed, mount_error,
                   peer_closed>>
    /\ UNCHANGED vmvars

\* The peer closes the session.
PeerClose ==
    /\ mount_pc = "sftp"
    /\ ~peer_closed
    /\ peer_closed' = TRUE
    /\ UNCHANGED <<probe_order, remote, mount_pc, probe_i, executed,
                   mount_error, served>>
    /\ UNCHANGED vmvars

\* The peer having closed, the loop obtains a null client message.
SftpExit ==
    /\ mount_pc = "sftp"
    /\ peer_closed
    /\ mount_pc' = SftpAfter("null")
    /\ UNCHANGED <<probe_order, remote, probe_i, executed, mount_error,
                   peer_closed, served>>
    /\ UNCHANGED vmvars

\* ----------------------------------------------------------------- Next
\* The controller as built, no mount being made.
Init == InitVm /\ InitNoMount

Next ==
    \/ Start
    \/ StartSpawn
    \/ StartWait
    \/ Shutdown
    \/ ShutdownKill
    \/ ShutdownWait
    \/ Suspend
    \/ SuspendCheck
    \/ SuspendPersist
    \/ SuspendClear
    \/ SuspendWait
    \/ EnsureVmIsRunning
    \/ Ipv4
    \/ WaitUntilSshUp
    \/ WaitUntilSshUpDelete
    \/ Destroy
    \/ DestroyWait
    \/ IoStarted
    \/ OnStartedState
    \/ OnStartedPersist
    \/ OnStartedNotify
    \/ IoStdout
    \/ OnRestartState
    \/ OnRestartPersist
    \/ OnRestartNotify
    \/ ResumeKill
    \/ OnSuspend
    \/ IoStderr
    \/ IoError
    \/ OnErrorState
    \/ OnErrorPersist
    \/ IoFinished
    \/ OnShutdownLock
    \/ OnShutdownWake
    \/ OnShutdownIp
    \/ OnShutdownPersist
    \/ OnShutdownNotify
    \/ QemuEmit
    \/ GuestReset
    \/ ChildExit

Spec == Init /\ [][Next]_vars

\* start() alone, with the signals it waits for, on a controller whose
\* monitor holds any metadata object.
InitStart == InitVmWith(AllMetadata) /\ InitNoMount

NextStart ==
    \/ Start
    \/ StartSpawn
    \/ StartWait
    \/ IoStarted
    \/ OnStartedState
    \/ OnStartedPersist
    \/ OnStartedNotify
    \/ IoStderr
    \/ IoError
    \/ OnErrorState
    \/ OnErrorPersist

SpecStart == InitStart /\ [][NextStart]_vars

\* shutdown() alone, on a controller in any state.  The child handle is
\* null only in the states the constructor leaves (no start() yet);
\* otherwise the child runs, has exited or never started.
ShutdownInputs ==
    {<<s, p>> \in States \X {"null", "running", "dead", "failed"} :
        p = "null" => s \in {"off", "suspended"}}

InitShutdown ==
    /\ \E inp \in ShutdownInputs : state = inp[1] /\ vm_process = inp[2]
    /\ update_shutdown_status \in BOOLEAN
    /\ ip = NoIp
    /\ delete_memory_snapshot = FALSE
    /\ saved_error_msg = NoMsg
    /\ state_mutex = "free"
    /\ events = <<>>
    /\ qemu_pending = <<>>
    /\ written = {}
    /\ nresets = 0
    /\ started_seen = (vm_process \in {"running", "dead"})
    /\ persisted = "none"
    /\ last_mon = "none"
    /\ metadata \in InitialMetadata
    /\ vm_command_version = latest_vm_command_version
    /\ extra_args = <<>>
    /\ caller_pc = "idle"
    /\ in_dtor = FALSE
    /\ caller_result = Res("none", NoMsg)
    /\ io_pc = "idle"
    /\ life = "alive"
    /\ nspawn = IF vm_process = "null" THEN 0 ELSE 1
    /\ starting_seen = (state = "starting")
    /\ terminating = FALSE
    /\ shut_req = FALSE
    /\ susp_req = "no"
    /\ fin_in_starting = FALSE
    /\ shutdown_notified = FALSE
    /\ resumed = FALSE
    /\ ssh_ok = FALSE
    /\ delvm_done = FALSE
    /\ InitNoMount

NextShutdown == Shutdown \/ ShutdownKill \/ ShutdownWait \/ ChildExit

SpecShutdown == InitShutdown /\ [][NextShutdown]_vars

\* The construction of an SshfsMount on its own thread, beside a controller
\* at rest.  The mounting thread is scheduled: once the peer closed, the
\* loop gets its null client message.
InitSshfs == InitVm /\ InitMount

NextSshfs ==
    \/ Probe
    \/ EnterSftp
    \/ SftpServe
    \/ PeerClose
    \/ SftpExit

SpecSshfs == InitSshfs /\ [][NextSshfs]_vars /\ WF_vars(SftpExit)

\* ------------------------------------------------------------ properties
\* No signal of the child waits to be handled and no handler is running.
SignalsHandled == events = <<>> /\ io_pc = "idle"

\* C1: if state == running then the child process is alive.  Stated for the
\* states at rest (the object lives, no operation and no handler is in
\* progress, every signal of the child was handled), where the claim allows
\* no exception.
C1_RunningImpliesAlive ==
    (life = "alive" /\ caller_pc = "idle" /\ SignalsHandled /\ state = "running")
        => vm_process = "running"

\* The step with which a handler that entered restarting or off completes:
\* the last statement of on_error, on_restart or on_shutdown, or
\* ensure_vm_is_running (on the polling or on the caller thread).
CompletesTransition ==
    /\ \/ io_pc \in {"on_error_persist", "on_restart_notify", "on_shutdown_notify"}
          /\ io_pc' = "idle"
       \/ EnsureVmIsRunning
       \/ WaitUntilSshUp /\ caller_result'.what = "StartException"
    /\ state' \in {"restarting", "off"}

\* C2: once a handler has completed with state == restarting or state == off,
\* the cached ip is empty.
C2_IpClearedOnTransition ==
    [][CompletesTransition => ip' = NoIp]_vars

\* C3: after shutdown() wrote system_powerdown to a running child, once the
\* child has finished and its signals were handled, state is off, off is
\* persisted and monitor.on_shutdown was called (the destructor not having
\* been entered meanwhile).
C3_ShutdownReachesOff ==
    (life = "alive" /\ ~in_dtor /\ shut_req /\ vm_process = "dead" /\ SignalsHandled)
        => (state = "off" /\ persisted = "off" /\ shutdown_notified)

\* C4: a suspend() issued in state running with the child alive, once it has
\* returned and the signals of the child were handled, leaves the child
\* killed, state == suspended and monitor.on_suspend called.
C4_SuspendEndsSuspended ==
    (life = "alive" /\ susp_req = "entered" /\ caller_pc = "idle" /\ SignalsHandled)
        => (state = "suspended" /\ vm_process = "dead" /\ last_mon = "on_suspend")

\* C5: when the suspend() was completed by the RESUME event (state is
\* suspended), the state last persisted is suspended.
C5_SuspendedIsPersisted ==
    (susp_req = "entered" /\ state = "suspended") => persisted = "suspended"

\* C6: when the child finished while state == starting, once its signals
\* were handled state is off, off is persisted and monitor.on_shutdown was
\* called.
C6_FinishedInStartingReachesOff ==
    (life = "alive" /\ fin_in_starting /\ vm_process = "dead" /\ SignalsHandled)
        => (state = "off" /\ persisted = "off" /\ shutdown_notified)

\* C7: delete_memory_snapshot is true if and only if the most recent start()
\* resumed from suspended and no wait_until_ssh_up has succeeded since.
C7_DeleteSnapshotFlag ==
    delete_memory_snapshot <=> (resumed /\ ~ssh_ok)

\* C8: update_shutdown_status is true unless the controller itself began
\* terminating the current child (suspend, shutdown during starting,
\* destructor).
C8_UpdateShutdownStatus ==
    ~terminating => update_shutdown_status

\* C9: state never becomes running unless state was starting earlier in the
\* life of the current child.
C9_RunningAfterStarting ==
    [][(state' = "running" /\ state # "running") => starting_seen]_vars

\* A VM that became running after its started signal set starting.
C9_Witness == state = "running" /\ starting_seen /\ vm_process = "running"

\* C10: start() in state suspending fails with "cannot start the instance
\* while suspending" and start() in state running returns; neither spawns a
\* child, writes to QMP, updates the metadata or changes state,
\* update_shutdown_status or delete_memory_snapshot.
C10_StartRefused ==
    [][(Start /\ state \in {"running", "suspending"}) =>
          /\ caller_pc' = "idle"
          /\ caller_result' =
               IF state = "suspending"
               THEN Res("runtime_error", "cannot start the instance while suspending")
               ELSE Res("ok", NoMsg)
          /\ UNCHANGED <<state, update_shutdown_status, delete_memory_snapshot,
                         vm_process, events, written, metadata, nspawn>>]_vars

\* start() was refused in state suspending.
C10_Witness ==
    /\ state = "suspending"
    /\ caller_result =
         Res("runtime_error", "cannot start the instance while suspending")

\* C11: when wait_until_ssh_up succeeds with delete_memory_snapshot set,
\* delvm is written to the child and the flag is cleared, and no delvm was
\* written before since the most recent resume; with the flag not set nothing
\* is written; a wait_until_ssh_up that fails (StartException, timeout)
\* writes nothing and leaves the flag alone; nothing else writes delvm.
C11_DelvmOncePerResume ==
    [][/\ (WaitUntilSshUpDelete /\ delete_memory_snapshot) =>
             /\ ~delvm_done
             /\ ~delete_memory_snapshot'
             /\ vm_process = "running" => "delvm" \in written'
       /\ (WaitUntilSshUpDelete /\ ~delete_memory_snapshot) => written' = written
       /\ (WaitUntilSshUp /\ caller_result'.what \in {"StartException", "runtime_error"}) =>
             /\ written' = written
             /\ delete_memory_snapshot' = delete_memory_snapshot
             /\ caller_pc' = "idle"
       /\ ("delvm" \in written' /\ "delvm" \notin written) =>
             (WaitUntilSshUpDelete /\ delete_memory_snapshot)]_vars

\* A resumed child whose memory snapshot was deleted after SSH came up.
C11_Witness ==
    /\ resumed
    /\ "delvm" \in written
    /\ delvm_done
    /\ ~delete_memory_snapshot

\* C12: once the destructor has cleared update_shutdown_status, the
\* error_occurred and finished signals of the child never run on_error or
\* on_shutdown.
C12_DestructorSilencesExit ==
    [][in_dtor => /\ IoError => io_pc' = "idle"
                  /\ IoFinished => io_pc' = "idle"]_vars

\* The version the claim reads from a metadata object: the stored
\* vm_command_version if the key is present, else 1 if use_cdrom is true,
\* else 0.
ClaimedVersion(md) ==
    IF md.has_version THEN md.version
    ELSE IF md.has_use_cdrom /\ md.use_cdrom THEN 1
    ELSE 0

\* C15: a start() that resumes reads from the metadata the stored
\* vm_command_version, or 1 for a legacy use_cdrom = true, or 0; a fresh
\* start() writes metadata that carry version 1 and read back as version 1.
C15_CommandVersionRead ==
    [][Start =>
         /\ state = "suspended" =>
               vm_command_version' = ClaimedVersion(metadata)
         /\ state = "off" =>
               /\ metadata'.has_version
               /\ metadata'.version = 1
               /\ get_vm_command_version(metadata') = 1
               /\ vm_command_version' = 1]_vars

\* A resumed child started with version 1 read from legacy metadata.
C15_Witness ==
    /\ resumed
    /\ vm_process = "running"
    /\ ~metadata.has_version
    /\ metadata.use_cdrom
    /\ vm_command_version = 1

C17_StateWritesUnderMutex ==
    [][(state_mutex = "io" /\ state' # state) => io_pc' # io_pc]_vars

\* C18: a QMP RESET event handled while state is suspending is ignored:
\* on_restart does not run, so state, ip, the persisted state and the
\* monitor are left alone.
C18_ResetIgnoredWhileSuspending ==
    [][(IoStdout /\ state = "suspending"
          /\ FirstEvent(Head(events).data) = "RESET")
       => io_pc' = "idle"]_vars

\* The state a handler's transition sets, by the position from which the
\* handler notifies the monitor.
NotifiedState(pc) ==
    CASE pc = "on_started_notify" -> "starting"
      [] pc = "on_restart_notify" -> "restarting"
      [] pc = "on_suspend" -> "suspended"
      [] pc = "on_shutdown_notify" -> "off"
      [] OTHER -> "none"

\* C19: when a handler notifies the monitor (on_resume, on_restart,
\* on_suspend, on_shutdown) of a transition whose new state still stands,
\* persist_state_for was already called with that state.
C19_PersistBeforeNotify ==
    [][((OnStartedNotify \/ OnRestartNotify \/ OnSuspend \/ OnShutdownNotify)
          /\ state' = NotifiedState(io_pc))
       => persisted = NotifiedState(io_pc)]_vars

\* C20: shutdown() dispatches on state.  In suspended it returns at once:
\* nothing is written, the child and every field are left alone.  In
\* running, delayed_shutdown or unknown with the child alive it writes
\* system_powerdown and goes to wait for the child, which it never kills.
\* In every other case it goes to kill the child, writes nothing, and clears
\* update_shutdown_status exactly when state is starting; the kill ends a
\* living child and nothing is written by it.
C20_ShutdownDispatch ==
    [][/\ Shutdown =>
            IF state = "suspended"
            THEN /\ caller_pc' = ReturnPc
                 /\ UNCHANGED <<fields, child, collab>>
            ELSE IF state \in {"running", "delayed_shutdown", "unknown"}
                    /\ vm_process = "running"
            THEN /\ written' = written \cup {"system_powerdown"}
                 /\ caller_pc' = "sd_wait"
                 /\ UNCHANGED <<fields, vm_process, events, collab>>
            ELSE /\ caller_pc' = "sd_kill"
                 /\ written' = written
                 /\ update_shutdown_status' =
                      IF state = "starting" THEN FALSE
                      ELSE update_shutdown_status
                 /\ UNCHANGED <<state, vm_process, events>>
       /\ (ShutdownKill /\ vm_process # "null") =>
            /\ vm_process' # "running"
            /\ written' = written
            /\ caller_pc' = "sd_wait"
       /\ (caller_pc = "sd_wait" /\ caller_pc' # caller_pc) =>
            UNCHANGED <<fields, child, collab>>]_vars

\* C20 witness: shutdown() in state unknown with the child alive wrote
\* system_powerdown and waits for the child.
C20_Witness ==
    /\ state = "unknown"
    /\ vm_process = "running"
    /\ "system_powerdown" \in written
    /\ caller_pc = "sd_wait"

\* The objects of one read that would make the handler act (on_restart, or
\* kill and on_suspend) if handled in state s.
ActingObjects(objs, s) ==
    {i \in 1..Len(objs) : StdoutBranch(objs[i], s) # "idle"}

\* C21: every object of a read is handled, so no RESET or RESUME is lost:
\* when a read holds an object that makes the handler act in the current
\* state, the handler acts on the first such object, wherever in the read
\* it is.
C21_NoEventLostInRead ==
    [][IoStdout =>
         LET objs == Head(events).data
             acting == ActingObjects(objs, state) IN
         acting # {} =>
           io_pc' = StdoutBranch(
                      objs[CHOOSE i \in acting : \A j \in acting : i <= j],
                      state)]_vars

\* The cloud-init argument that command version v selects: -cdrom from
\* version 1 on, the -drive form for version 0.
ClaimedCloudInitArg(v) == IF v >= 1 THEN CdromArg ELSE DriveArg

\* C22: a start() that resumes from suspended gives the child -loadvm
\* suspend, -machine with the stored machine type (pc-i440fx-xenial when
\* the metadata has none) and the one cloud-init argument that the command
\* version it passes to the process spec selects.
C22_ResumeArgsFollowVersion ==
    [][(Start /\ state = "suspended") =>
         extra_args' =
           <<"-loadvm", "suspend", "-machine",
             IF metadata.has_machine_type THEN "probed_machine_type"
             ELSE "pc-i440fx-xenial">>
           \o ClaimedCloudInitArg(vm_command_version')]_vars

\* C23: no step of shutdown() (or stop(), which is shutdown()), of suspend()
\* or of the destructor kills, writes to, queries or waits on a child handle
\* that does not exist: none of their steps ends the program by
\* dereferencing a null vm_process.
C23_NoUseOfMissingChild ==
    [][(\/ Shutdown \/ ShutdownKill \/ ShutdownWait
        \/ Suspend \/ SuspendCheck \/ SuspendPersist \/ SuspendClear
        \/ SuspendWait
        \/ Destroy \/ DestroyWait)
       => ~(vm_process = "null" /\ life' = "crashed")]_vars

\* --------------------------------------------- properties of SshfsMount
IsPrefix(a, b) == Len(a) <= Len(b) /\ a = SubSeq(b, 1, Len(a))

\* Position of command c in an order.
PositionOf(c, order) == CHOOSE i \in 1..Len(order) : order[i] = c

\* The error each step raises according to the claim: SSHFSMissingError for
\* the presence step, invalid_argument for a uid that is no integer,
\* runtime_error for every other failure.
ClaimedError(cmd, r) ==
    IF cmd = "env" THEN "none"
    ELSE IF r.exit = "fail"
         THEN (IF cmd = "which" THEN "SSHFSMissingError" ELSE "runtime_error")
    ELSE IF cmd = "id_u" /\ r.out # "int" THEN "invalid_argument"
    ELSE IF cmd = "sshfs_V" /\ r.out = "fuse_bad" THEN "runtime_error"
    ELSE "none"

\* The commands a construction in the given order runs on the remote host
\* at hand when it stops at the first step that fails, and its error.
ProbesOf(order) ==
    SelectSeq(order, LAMBDA c : ~(c = "which" /\ remote["env"].exit = "ok"))

FailingIn(seq) == {i \in 1..Len(seq) : ClaimedError(seq[i], remote[seq[i]]) # "none"}

FirstFailing(seq) ==
    IF FailingIn(seq) = {} THEN 0
    ELSE CHOOSE i \in FailingIn(seq) : \A j \in FailingIn(seq) : i <= j

\* The construction runs the probes in the given order and stops at the
\* first that fails with that step's error; the SFTP server loop is entered
\* only when none failed.
StopsAtFirstFailure(order) ==
    LET seq == ProbesOf(order)
        f == FirstFailing(seq)
        runs == IF f = 0 THEN seq ELSE SubSeq(seq, 1, f)
    IN /\ IsPrefix(executed, runs)
       /\ mount_pc = "raised" =>
             /\ f # 0
             /\ executed = runs
             /\ mount_error = ClaimedError(seq[f], remote[seq[f]])
       /\ mount_pc \in {"sftp", "returned"} =>
             /\ f = 0
             /\ executed = runs
             /\ mount_error = "none"
       /\ f # 0 => (served = 0 /\ ~peer_closed /\ mount_pc \in {"probing", "raised"})

\* The order of the claim: sshfs -V last.
ClaimedOrder == InsertAt(BaseOrder, Len(BaseOrder), "sshfs_V")

\* C13 as stated: the probes run in the order presence, mkdir, id -nu,
\* id -ng, chown, id -u, id -g, sshfs -V; the first failing step raises its
\* error, no later step runs and the SFTP server loop is not entered.
C13_ClaimedOrderStopsAtFirstFailure ==
    mount_pc # "none" => StopsAtFirstFailure(ClaimedOrder)

\* C13 amended: the probes run in a fixed order in which sshfs -V comes
\* after the presence step and before id -u, the other steps in the order
\* presence, mkdir, id -nu, id -ng, chown, id -u, id -g; the first failing
\* step raises its error, no later step runs and the SFTP server loop is not
\* entered.
C13_ProbesStopAtFirstFailure ==
    mount_pc # "none" =>
        /\ SelectSeq(probe_order, LAMBDA c : c # "sshfs_V") = BaseOrder
        /\ PositionOf("which", probe_order) < PositionOf("sshfs_V", probe_order)
        /\ PositionOf("sshfs_V", probe_order) < PositionOf("id_u", probe_order)
        /\ StopsAtFirstFailure(probe_order)

\* A construction that failed at sshfs -V, before id -u was run.
C13_Witness ==
    /\ mount_pc = "raised"
    /\ mount_error = "runtime_error"
    /\ executed # <<>>
    /\ executed[Len(executed)] = "sshfs_V"
    /\ \A i \in 1..Len(executed) : executed[i] # "id_u"

\* C14: the construction stays in the SFTP server loop while the peer is
\* connected and leaves it only by a null client message after the peer
\* closed, returning without error; once the peer has closed, it returns.
C14_UnblocksOnPeerClose ==
    /\ [][(mount_pc = "sftp" /\ mount_pc' # "sftp") =>
             (peer_closed /\ mount_pc' = "returned" /\ mount_error' = "none")]_vars
    /\ (mount_pc = "sftp" /\ peer_closed) ~> (mount_pc = "returned")

\* A construction that returned after serving the peer until it closed.
C14_Witness ==
    /\ mount_pc = "returned"
    /\ peer_closed
    /\ served > 0
    /\ mount_error = "none"

====
